---- MODULE Spec2Model ----
(***************************************************************************)
(* Model of the embedding-comparison engine of the face verification       *)
(* service (SimilarityService, services/similarity.service.js) together    *)
(* with the configuration value it is constructed from.                    *)
(*                                                                         *)
(* JavaScript numbers are modelled as fixed-point values: the integer n    *)
(* stands for n / Scale, every arithmetic result is rounded to the nearest *)
(* representable value, a result whose magnitude exceeds MaxFinite         *)
(* overflows to +/-Infinity, and NaN is propagated as IEEE 754 does.       *)
(***************************************************************************)
EXTENDS Integers, Sequences, FiniteSets, TLC

\* Number of representable steps per unit (the precision of the number model).
Scale == 100

\* Largest finite magnitude of the number model, in steps (Number.MAX_VALUE).
MaxFinite == 10000

\* Longest embedding the model enumerates.
MaxLen == 2

\* Longest text, in tokens, the model hands to the parser.
MaxTokens == 5

\* Most images, and most stored embeddings, of one batch request.
MaxBatch == 2

\* The built-in default of SIMILARITY_THRESHOLD, in tenths (0.6).
DefaultSimilarityThresholdTenths == 6

----------------------------------------------------------------------------
(* JavaScript values *)

Num(n) == [k |-> "num", v |-> n]
NaN == [k |-> "nan", v |-> 0]
Infinity == [k |-> "inf", v |-> 1]
NegInfinity == [k |-> "inf", v |-> -1]
Null == [k |-> "null", v |-> 0]
Str == [k |-> "str", v |-> 0]

True == [k |-> "bool", v |-> 1]
False == [k |-> "bool", v |-> 0]
Bool(b) == IF b THEN True ELSE False

\* a value of type object (an array nested in an array)
Obj == [k |-> "obj", v |-> 0]

Zero == Num(0)
One == Num(Scale)
Tenths(n) == Num((n * Scale) \div 10)

\* typeof x === 'number'
IsNumberType(x) == x.k \in {"num", "nan", "inf"}

\* isNaN(x) for a value of type number
IsNaN(x) == x.k = "nan"

\* the truthiness test of `x || y`
Truthy(x) ==
  CASE x.k = "num" -> x.v # 0
    [] x.k = "inf" -> TRUE
    [] x.k = "str" -> TRUE
    [] OTHER -> FALSE

AbsInt(n) == IF n < 0 THEN -n ELSE n
SignInt(n) == IF n < 0 THEN -1 ELSE 1

\* n / d rounded to the nearest integer, d # 0
RoundDiv(n, d) ==
  SignInt(n) * SignInt(d) * ((2 * AbsInt(n) + AbsInt(d)) \div (2 * AbsInt(d)))

\* a finite result, or the infinity it overflows to
Fin(n) ==
  IF n > MaxFinite THEN Infinity
  ELSE IF n < -MaxFinite THEN NegInfinity
  ELSE Num(n)

Neg(a) ==
  CASE a.k = "num" -> Num(-a.v)
    [] a.k = "inf" -> [k |-> "inf", v |-> -a.v]
    [] OTHER -> a

\* a + b
Add(a, b) ==
  CASE a.k = "nan" \/ b.k = "nan" -> NaN
    [] a.k = "inf" /\ b.k = "inf" -> IF a.v = b.v THEN a ELSE NaN
    [] a.k = "inf" -> a
    [] b.k = "inf" -> b
    [] OTHER -> Fin(a.v + b.v)

\* a - b
Sub(a, b) == Add(a, Neg(b))

\* a * b
Mul(a, b) ==
  CASE a.k = "nan" \/ b.k = "nan" -> NaN
    [] a.k = "inf" /\ b.k = "inf" -> [k |-> "inf", v |-> a.v * b.v]
    [] a.k = "inf" -> IF b.v = 0 THEN NaN ELSE [k |-> "inf", v |-> a.v * SignInt(b.v)]
    [] b.k = "inf" -> IF a.v = 0 THEN NaN ELSE [k |-> "inf", v |-> b.v * SignInt(a.v)]
    [] OTHER -> Fin(RoundDiv(a.v * b.v, Scale))

\* a / b : never throws; x / 0 is NaN or an infinity
Div(a, b) ==
  CASE a.k = "nan" \/ b.k = "nan" -> NaN
    [] a.k = "inf" /\ b.k = "inf" -> NaN
    [] a.k = "inf" -> [k |-> "inf", v |-> a.v * SignInt(b.v)]
    [] b.k = "inf" -> Zero
    [] b.v = 0 -> IF a.v = 0 THEN NaN ELSE [k |-> "inf", v |-> SignInt(a.v)]
    [] OTHER -> Fin(RoundDiv(a.v * Scale, b.v))

RECURSIVE ISqrtBetween(_, _, _)
\* the largest r in lo..hi with r * r <= n
ISqrtBetween(n, lo, hi) ==
  IF lo >= hi THEN lo
  ELSE LET mid == (lo + hi + 1) \div 2
       IN IF mid * mid <= n THEN ISqrtBetween(n, mid, hi)
          ELSE ISqrtBetween(n, lo, mid - 1)

ISqrt(n) == ISqrtBetween(n, 0, 2 * (MaxFinite + Scale))

\* Math.sqrt(a)
Sqrt(a) ==
  CASE a.k = "nan" -> NaN
    [] a.k = "inf" -> IF a.v = 1 THEN Infinity ELSE NaN
    [] a.v < 0 -> NaN
    [] OTHER -> Num((ISqrt(4 * a.v * Scale) + 1) \div 2)

\* Math.abs(a)
Abs(a) ==
  CASE a.k = "num" -> Num(AbsInt(a.v))
    [] a.k = "inf" -> Infinity
    [] OTHER -> a

\* a >= b on numbers: false as soon as one side is NaN
Ge(a, b) ==
  CASE a.k = "nan" \/ b.k = "nan" -> FALSE
    [] a.k = "inf" /\ b.k = "inf" -> a.v >= b.v
    [] a.k = "inf" -> a.v = 1
    [] b.k = "inf" -> b.v = -1
    [] OTHER -> a.v >= b.v

\* a < b and a > b on numbers
Lt(a, b) == a.k # "nan" /\ b.k # "nan" /\ ~Ge(a, b)
Gt(a, b) == Lt(b, a)

\* Math.min(a, b) and Math.max(a, b): NaN as soon as one side is NaN
MathMin(a, b) ==
  IF a.k = "nan" \/ b.k = "nan" THEN NaN ELSE IF Ge(a, b) THEN b ELSE a
MathMax(a, b) ==
  IF a.k = "nan" \/ b.k = "nan" THEN NaN ELSE IF Ge(a, b) THEN a ELSE b

----------------------------------------------------------------------------
(* Inputs *)

\* an argument passed where an embedding is expected
Arr(items) == [isArray |-> TRUE, items |-> items]
NotAnArray == [isArray |-> FALSE, items |-> <<>>]

\* a magnitude whose square is no longer finite
Huge == Num(MaxFinite \div 5)

Elements == {Zero, One, Neg(One), Num(Scale \div 2), Huge}

Vectors == UNION {[1..n -> Elements] : n \in 0..MaxLen}

EmbeddingArgs == {Arr(v) : v \in Vectors} \cup {NotAnArray}

\* the optional third argument of compareEmbeddings (Null: omitted)
ThresholdArgs ==
  {Null, Zero, Tenths(3), Tenths(8), One, Tenths(15), Neg(Tenths(2)), NaN}

\* the argument of setSimilarityThreshold
SetterArgs ==
  {Zero, Tenths(7), One, Tenths(15), Neg(Tenths(1)), NaN, Null, Str}

\* parseFloat(process.env.SIMILARITY_THRESHOLD): NaN when unset or not a number
EnvThresholds == {NaN, Zero, Tenths(8)}

\* elements of arrays that come from outside: not all of them numbers
UntrustedElements == {One, NaN, Infinity, Str}

UntrustedArgs ==
  {Arr(v) : v \in UNION {[1..n -> UntrustedElements] : n \in 0..MaxLen}}
    \cup {NotAnArray}

\* the tokens of the JSON texts handed to the parser
Tokens == {"[", "]", ",", "1", "0.5", "1e999", "\"a\""}

\* an argument passed where a JSON string is expected
Text(tokens) == [isString |-> TRUE, tokens |-> tokens]
NotAString == [isString |-> FALSE, tokens |-> <<>>]

TextArgs ==
  {Text(ts) : ts \in UNION {[1..n -> Tokens] : n \in 0..MaxTokens}}
    \cup {NotAString}

----------------------------------------------------------------------------
(* config.faceDetection.similarityThreshold *)

ConfigSimilarityThreshold(parsed) ==
  IF Truthy(parsed) THEN parsed ELSE Tenths(DefaultSimilarityThresholdTenths)

----------------------------------------------------------------------------
(* SimilarityService: pure parts *)

Returned(x) == [status |-> "returned", error |-> "", value |-> x]
Thrown(msg) == [status |-> "ValidationError", error |-> msg, value |-> NaN]

InvalidVectorsMsg == "Invalid embedding vectors provided"
LengthMsg == "Embedding vectors must have the same length"
ThresholdMsg == "Similarity threshold must be a number between 0 and 1"

\* embedding.every(val => typeof val === 'number' && !isNaN(val))
EveryValidNumber(items) ==
  \A i \in 1..Len(items) : IsNumberType(items[i]) /\ ~IsNaN(items[i])

validateEmbeddings(embedding1, embedding2) ==
  IF ~embedding1.isArray \/ ~embedding2.isArray THEN FALSE
  ELSE IF Len(embedding1.items) = 0 \/ Len(embedding2.items) = 0 THEN FALSE
  ELSE EveryValidNumber(embedding1.items) /\ EveryValidNumber(embedding2.items)

RECURSIVE DotProduct(_, _, _)
\* the loop `dotProduct += embedding1[i] * embedding2[i]` over the first n places
DotProduct(x, y, n) ==
  IF n = 0 THEN Zero
  ELSE Add(DotProduct(x, y, n - 1), Mul(x[n], y[n]))

RECURSIVE SumSquares(_, _)
\* reduce((sum, val) => sum + val * val, 0) over the first n places
SumSquares(x, n) ==
  IF n = 0 THEN Zero
  ELSE Add(SumSquares(x, n - 1), Mul(x[n], x[n]))

Magnitude(x) == Sqrt(SumSquares(x, Len(x)))

\* Math.max(0, Math.min(1, similarity))
Clamp(similarity) == MathMax(Zero, MathMin(One, similarity))

\* a slip of the cosine: the dot product is not divided by the magnitudes
CosineOfUnnormalized(x, y) ==
  LET dotProduct == DotProduct(x, y, Len(x))
      magnitude1 == Magnitude(x)
      magnitude2 == Magnitude(y)
  IN IF magnitude1 = Zero \/ magnitude2 = Zero THEN Zero
     ELSE Clamp(dotProduct)

\* a slip of the cosine: the dot product is divided by the first magnitude twice
CosineOfProjected(x, y) ==
  LET dotProduct == DotProduct(x, y, Len(x))
      magnitude1 == Magnitude(x)
      magnitude2 == Magnitude(y)
  IN IF magnitude1 = Zero \/ magnitude2 = Zero THEN Zero
     ELSE Clamp(Div(dotProduct, Mul(magnitude1, magnitude1)))

\* a slip of the cosine: a zero magnitude is not caught before dividing
CosineOfUnguarded(x, y) ==
  LET dotProduct == DotProduct(x, y, Len(x))
      magnitude1 == Magnitude(x)
      magnitude2 == Magnitude(y)
  IN Clamp(Div(dotProduct, Mul(magnitude1, magnitude2)))

CosineOf(x, y) ==
  LET dotProduct == DotProduct(x, y, Len(x))
      magnitude1 == Magnitude(x)
      magnitude2 == Magnitude(y)
  IN IF magnitude1 = Zero \/ magnitude2 = Zero THEN Zero
     ELSE Clamp(Div(dotProduct, Mul(magnitude1, magnitude2)))

\* a slip of the order of the checks: the lengths are compared before validating
calculateCosineSimilarityLengthFirst(embedding1, embedding2) ==
  IF Len(embedding1.items) # Len(embedding2.items) THEN Thrown(LengthMsg)
  ELSE IF ~validateEmbeddings(embedding1, embedding2) THEN Thrown(InvalidVectorsMsg)
  ELSE Returned(CosineOf(embedding1.items, embedding2.items))

calculateCosineSimilarity(embedding1, embedding2) ==
  IF ~validateEmbeddings(embedding1, embedding2) THEN Thrown(InvalidVectorsMsg)
  ELSE IF Len(embedding1.items) # Len(embedding2.items) THEN Thrown(LengthMsg)
  ELSE Returned(CosineOf(embedding1.items, embedding2.items))

RECURSIVE SumSquaredDiffs(_, _, _)
SumSquaredDiffs(x, y, n) ==
  IF n = 0 THEN Zero
  ELSE LET diff == Sub(x[n], y[n])
       IN Add(SumSquaredDiffs(x, y, n - 1), Mul(diff, diff))

calculateEuclideanDistance(embedding1, embedding2) ==
  IF ~validateEmbeddings(embedding1, embedding2) THEN Thrown(InvalidVectorsMsg)
  ELSE IF Len(embedding1.items) # Len(embedding2.items) THEN Thrown(LengthMsg)
  ELSE Returned(Sqrt(SumSquaredDiffs(embedding1.items, embedding2.items,
                                     Len(embedding1.items))))

RECURSIVE SumAbsDiffs(_, _, _)
SumAbsDiffs(x, y, n) ==
  IF n = 0 THEN Zero
  ELSE Add(SumAbsDiffs(x, y, n - 1), Abs(Sub(x[n], y[n])))

calculateManhattanDistance(embedding1, embedding2) ==
  IF ~validateEmbeddings(embedding1, embedding2) THEN Thrown(InvalidVectorsMsg)
  ELSE IF Len(embedding1.items) # Len(embedding2.items) THEN Thrown(LengthMsg)
  ELSE Returned(SumAbsDiffs(embedding1.items, embedding2.items,
                            Len(embedding1.items)))

\* the branch of calculateConfidence that is taken
ConfidenceBranch(similarity, threshold) ==
  IF Ge(similarity, threshold) THEN "match" ELSE "nonmatch"

\* a slip of the formula: the excess ratio is not scaled back by (1 - threshold)
MatchConfidenceUnscaled(similarity, threshold) ==
  LET excessSimilarity == Sub(similarity, threshold)
      maxExcess == Sub(One, threshold)
  IN MathMin(One, Add(threshold, Div(excessSimilarity, maxExcess)))

\* the formula of the branch for matches
MatchConfidence(similarity, threshold) ==
  LET excessSimilarity == Sub(similarity, threshold)
      maxExcess == Sub(One, threshold)
  IN MathMin(One, Add(threshold,
                      Mul(Div(excessSimilarity, maxExcess), Sub(One, threshold))))

\* the formula of the branch for non-matches
NonMatchConfidence(similarity, threshold) == Div(similarity, threshold)

calculateConfidence(similarity, threshold) ==
  IF ConfidenceBranch(similarity, threshold) = "match"
  THEN MatchConfidence(similarity, threshold)
  ELSE NonMatchConfidence(similarity, threshold)

\* a slip of the fallback: a falsy default is replaced by the built-in one as well
EffectiveThresholdOrBuiltin(threshold, default) ==
  IF Truthy(threshold) THEN threshold
  ELSE IF Truthy(default) THEN default
  ELSE Tenths(DefaultSimilarityThresholdTenths)

\* `threshold || this.similarityThreshold`
EffectiveThreshold(threshold, default) ==
  IF Truthy(threshold) THEN threshold ELSE default

\* a slip of the comparison: a similarity equal to the threshold is no match
IsMatchStrict(cosineSimilarity, similarityThreshold) ==
  Gt(cosineSimilarity, similarityThreshold)

\* cosineSimilarity >= similarityThreshold
IsMatch(cosineSimilarity, similarityThreshold) ==
  Ge(cosineSimilarity, similarityThreshold)

NoResult ==
  [isMatch |-> FALSE, similarity |-> NaN, euclideanDistance |-> NaN,
   manhattanDistance |-> NaN, threshold |-> NaN, confidence |-> NaN]

ComparisonResult(cosineSimilarity, euclideanDistance, manhattanDistance, effective) ==
  [isMatch |-> IsMatch(cosineSimilarity, effective),
   similarity |-> cosineSimilarity,
   euclideanDistance |-> euclideanDistance,
   manhattanDistance |-> manhattanDistance,
   threshold |-> effective,
   confidence |-> calculateConfidence(cosineSimilarity, effective)]

\* [status, error, result]: the three metrics are computed in the code's order
\* and the first one that throws ends the call
compareEmbeddings(default, embedding1, embedding2, threshold) ==
  LET effective == EffectiveThreshold(threshold, default)
      cosine == calculateCosineSimilarity(embedding1, embedding2)
      euclidean == calculateEuclideanDistance(embedding1, embedding2)
      manhattan == calculateManhattanDistance(embedding1, embedding2)
  IN IF cosine.status # "returned"
       THEN [status |-> cosine.status, error |-> cosine.error, result |-> NoResult]
     ELSE IF euclidean.status # "returned"
       THEN [status |-> euclidean.status, error |-> euclidean.error, result |-> NoResult]
     ELSE IF manhattan.status # "returned"
       THEN [status |-> manhattan.status, error |-> manhattan.error, result |-> NoResult]
     ELSE [status |-> "returned", error |-> "",
           result |-> ComparisonResult(cosine.value, euclidean.value,
                                       manhattan.value, effective)]

----------------------------------------------------------------------------
(* JSON.parse and JSON.stringify on the texts above *)

NumberTokens == {"1", "0.5", "1e999"}
LiteralTokens == NumberTokens \cup {"\"a\""}

\* a slip of the conversion: the fraction of a literal is dropped
LiteralValueTruncated(token) ==
  CASE token = "1" -> One
    [] token = "0.5" -> Zero
    [] token = "1e999" -> Infinity
    [] OTHER -> Str

\* the value of a literal: a literal too large for a double becomes Infinity
LiteralValue(token) ==
  CASE token = "1" -> One
    [] token = "0.5" -> Num(Scale \div 2)
    [] token = "1e999" -> Infinity
    [] OTHER -> Str

SyntaxError == [ok |-> FALSE, isArray |-> FALSE, val |-> Null, items |-> <<>>, next |-> 0]

RECURSIVE ParseValue(_, _)
RECURSIVE ParseElements(_, _, _)

\* the JSON value that starts at token i, and the place after it
ParseValue(ts, i) ==
  IF i > Len(ts) THEN SyntaxError
  ELSE IF ts[i] \in LiteralTokens
    THEN [ok |-> TRUE, isArray |-> FALSE, val |-> LiteralValue(ts[i]),
          items |-> <<>>, next |-> i + 1]
  ELSE IF ts[i] = "["
    THEN IF i + 1 <= Len(ts) /\ ts[i + 1] = "]"
         THEN [ok |-> TRUE, isArray |-> TRUE, val |-> Obj, items |-> <<>>, next |-> i + 2]
         ELSE ParseElements(ts, i + 1, <<>>)
  ELSE SyntaxError

\* the elements of an array from token i on, after the elements acc
ParseElements(ts, i, acc) ==
  LET e == ParseValue(ts, i)
  IN IF ~e.ok THEN SyntaxError
     ELSE IF e.next > Len(ts) THEN SyntaxError
     ELSE IF ts[e.next] = "]"
       THEN [ok |-> TRUE, isArray |-> TRUE, val |-> Obj,
             items |-> Append(acc, e.val), next |-> e.next + 1]
     ELSE IF ts[e.next] = ","
       THEN ParseElements(ts, e.next + 1, Append(acc, e.val))
     ELSE SyntaxError

\* JSON.parse(text): the whole text must be one value
JSONParse(ts) ==
  LET r == ParseValue(ts, 1)
  IN IF r.ok /\ r.next = Len(ts) + 1 THEN r ELSE SyntaxError

\* the literal JSON.stringify writes for a number: null for a non-finite one
NumberToken(x) ==
  CASE x = One -> "1"
    [] x = Num(Scale \div 2) -> "0.5"
    [] OTHER -> "null"

RECURSIVE JoinTokens(_, _)
JoinTokens(v, n) ==
  IF n = 0 THEN <<>>
  ELSE IF n = 1 THEN <<NumberToken(v[1])>>
  ELSE JoinTokens(v, n - 1) \o <<",", NumberToken(v[n])>>

\* JSON.stringify(embeddingArray)
Serialize(v) == Text(<<"[">> \o JoinTokens(v, Len(v)) \o <<"]">>)

----------------------------------------------------------------------------
(* SimilarityService: parseEmbeddingString *)

NotStringMsg == "Embedding must be a JSON string"
NotArrayMsg == "Embedding must be an array"
EmptyMsg == "Embedding array cannot be empty"
NotNumbersMsg == "All embedding values must be valid numbers"
FormatMsg == "Invalid embedding format. Please provide a valid JSON array of numbers."

ParseReturned(items) ==
  [status |-> "returned", error |-> "", embedding |-> Arr(items)]
ParseThrown(msg) ==
  [status |-> "ValidationError", error |-> msg, embedding |-> NotAnArray]

\* a slip of the parser: the elements are not checked
parseEmbeddingStringUnchecked(embeddingString) ==
  IF ~embeddingString.isString THEN ParseThrown(NotStringMsg)
  ELSE LET embedding == JSONParse(embeddingString.tokens)
       IN IF ~embedding.ok THEN ParseThrown(FormatMsg)
          ELSE IF ~embedding.isArray THEN ParseThrown(NotArrayMsg)
          ELSE IF Len(embedding.items) = 0 THEN ParseThrown(EmptyMsg)
          ELSE ParseReturned(embedding.items)

parseEmbeddingString(embeddingString) ==
  IF ~embeddingString.isString THEN ParseThrown(NotStringMsg)
  ELSE LET embedding == JSONParse(embeddingString.tokens)
       IN IF ~embedding.ok THEN ParseThrown(FormatMsg)
          ELSE IF ~embedding.isArray THEN ParseThrown(NotArrayMsg)
          ELSE IF Len(embedding.items) = 0 THEN ParseThrown(EmptyMsg)
          ELSE IF ~EveryValidNumber(embedding.items) THEN ParseThrown(NotNumbersMsg)
          ELSE ParseReturned(embedding.items)

----------------------------------------------------------------------------
(* SimilarityService: the threshold *)

\* the guard of setSimilarityThreshold
ThresholdRejected(threshold) ==
  ~IsNumberType(threshold) \/ Lt(threshold, Zero) \/ Gt(threshold, One)

----------------------------------------------------------------------------
(* The table user_embeddings (models/userEmbedding.model.js)                *)

UserIds == {"u1", "u2"}

\* result.embedding of processImageAndGenerateEmbedding: the vectors themselves
\* play no part in what the table does with them
GeneratedEmbeddings == {"e1", "e2"}

\* the table holds at most one row per userId (userId is unique)
NoRow == [exists |-> FALSE, isActive |-> FALSE, embedding |-> "none"]
Row(isActive, embedding) ==
  [exists |-> TRUE, isActive |-> isActive, embedding |-> embedding]

\* findOne({ where: { userId, isActive: true } }): NoRow stands for null
findByUserId(table, userId) ==
  IF table[userId].exists /\ table[userId].isActive THEN table[userId] ELSE NoRow

\* create(...): the unique index on userId rejects a second row, active or not
createEmbedding(table, userId, embedding) ==
  IF table[userId].exists
  THEN [ok |-> FALSE, table |-> table]
  ELSE [ok |-> TRUE, table |-> [table EXCEPT ![userId] = Row(TRUE, embedding)]]

\* update(..., { where: { userId, isActive: true } }), throwing when no row matched
updateEmbedding(table, userId, embedding) ==
  LET updatedRowsCount == IF table[userId].exists /\ table[userId].isActive THEN 1 ELSE 0
  IN IF updatedRowsCount = 0
     THEN [ok |-> FALSE, table |-> table]
     ELSE [ok |-> TRUE, table |-> [table EXCEPT ![userId].embedding = embedding]]

\* update({ isActive: false, updatedAt }, { where: { userId } })
deactivateEmbedding(table, userId) ==
  LET updatedRowsCount == IF table[userId].exists THEN 1 ELSE 0
  IN [deleted |-> updatedRowsCount > 0,
      table |-> IF table[userId].exists
                THEN [table EXCEPT ![userId].isActive = FALSE]
                ELSE table]

\* the requests the encode controller can be handling at one time
RequestSlots == {"r1", "r2"}

NoRequest ==
  [op |-> "none", userId |-> "none", embedding |-> "none", pc |-> "idle",
   existingUser |-> FALSE, response |-> "none"]

\* the checks a request passes before any work is done
Prechecks == {"ok", "modelNotLoaded", "badRequest"}

----------------------------------------------------------------------------
(* The service object and the calls made on it *)

VARIABLES
  similarityThreshold,  \* this.similarityThreshold, the process-wide default
  call,                 \* the call that has just completed, with its outcome
  userEmbeddings,       \* the table user_embeddings, one row per userId
  requests              \* the requests of the encode controller under way

vars == <<similarityThreshold, call, userEmbeddings, requests>>

\* the similarity service, and the table with the requests that work on it
service == <<similarityThreshold, call>>
store == <<userEmbeddings, requests>>

NoOutcome == [status |-> "none", error |-> "", value |-> NaN, result |-> NoResult]

NoCall ==
  [op |-> "none", embedding1 |-> NotAnArray, embedding2 |-> NotAnArray,
   threshold |-> Null, before |-> NaN, outcome |-> NoOutcome]

\* the record of a completed call: its arguments, the default it found, its outcome
Completed(op, embedding1, embedding2, threshold, outcome) ==
  [op |-> op, embedding1 |-> embedding1, embedding2 |-> embedding2,
   threshold |-> threshold, before |-> similarityThreshold, outcome |-> outcome]

MetricOutcome(o) ==
  [status |-> o.status, error |-> o.error, value |-> o.value, result |-> NoResult]

CompareOutcome(o) ==
  [status |-> o.status, error |-> o.error, value |-> NaN, result |-> o.result]

\* constructor(): the default is taken from the configuration
Init ==
  /\ similarityThreshold \in {ConfigSimilarityThreshold(e) : e \in EnvThresholds}
  /\ call = NoCall
  /\ userEmbeddings = [u \in UserIds |-> NoRow]
  /\ requests = [r \in RequestSlots |-> NoRequest]

Idle == call.op = "none"

CalculateCosineSimilarity ==
  /\ Idle
  /\ \E embedding1 \in EmbeddingArgs, embedding2 \in EmbeddingArgs :
       call' = Completed("calculateCosineSimilarity", embedding1, embedding2, Null,
                         MetricOutcome(calculateCosineSimilarity(embedding1, embedding2)))
  /\ UNCHANGED similarityThreshold
  /\ UNCHANGED store

CalculateEuclideanDistance ==
  /\ Idle
  /\ \E embedding1 \in EmbeddingArgs, embedding2 \in EmbeddingArgs :
       call' = Completed("calculateEuclideanDistance", embedding1, embedding2, Null,
                         MetricOutcome(calculateEuclideanDistance(embedding1, embedding2)))
  /\ UNCHANGED similarityThreshold
  /\ UNCHANGED store

CalculateManhattanDistance ==
  /\ Idle
  /\ \E embedding1 \in EmbeddingArgs, embedding2 \in EmbeddingArgs :
       call' = Completed("calculateManhattanDistance", embedding1, embedding2, Null,
                         MetricOutcome(calculateManhattanDistance(embedding1, embedding2)))
  /\ UNCHANGED similarityThreshold
  /\ UNCHANGED store

\* a slip of compareEmbeddings: the resolved threshold is kept as the new default
CompareEmbeddingsStoring ==
  /\ Idle
  /\ \E embedding1 \in EmbeddingArgs, embedding2 \in EmbeddingArgs, threshold \in ThresholdArgs :
       /\ call' = Completed("compareEmbeddings", embedding1, embedding2, threshold,
                            CompareOutcome(compareEmbeddings(similarityThreshold,
                                                             embedding1, embedding2, threshold)))
       /\ similarityThreshold' = EffectiveThreshold(threshold, similarityThreshold)
  /\ UNCHANGED store

CompareEmbeddings ==
  /\ Idle
  /\ \E embedding1 \in EmbeddingArgs, embedding2 \in EmbeddingArgs, threshold \in ThresholdArgs :
       call' = Completed("compareEmbeddings", embedding1, embedding2, threshold,
                         CompareOutcome(compareEmbeddings(similarityThreshold,
                                                          embedding1, embedding2, threshold)))
  /\ UNCHANGED similarityThreshold
  /\ UNCHANGED store

GetSimilarityThreshold ==
  /\ Idle
  /\ call' = Completed("getSimilarityThreshold", NotAnArray, NotAnArray, Null,
                       MetricOutcome(Returned(similarityThreshold)))
  /\ UNCHANGED similarityThreshold
  /\ UNCHANGED store

SetSimilarityThreshold ==
  /\ Idle
  /\ \E threshold \in SetterArgs :
       IF ThresholdRejected(threshold)
       THEN /\ call' = Completed("setSimilarityThreshold", NotAnArray, NotAnArray,
                                 threshold, MetricOutcome(Thrown(ThresholdMsg)))
            /\ UNCHANGED similarityThreshold
       ELSE /\ call' = Completed("setSimilarityThreshold", NotAnArray, NotAnArray,
                                 threshold, MetricOutcome(Returned(Null)))
            /\ similarityThreshold' = threshold
  /\ UNCHANGED store

\* the caller has taken the outcome; the service is ready for the next call
Return ==
  /\ ~Idle
  /\ call' = NoCall
  /\ UNCHANGED similarityThreshold
  /\ UNCHANGED store

ValidateEmbeddings ==
  /\ Idle
  /\ \E embedding1 \in UntrustedArgs, embedding2 \in UntrustedArgs :
       call' = Completed("validateEmbeddings", embedding1, embedding2, Null,
                         MetricOutcome(Returned(Bool(validateEmbeddings(embedding1,
                                                                        embedding2)))))
  /\ UNCHANGED similarityThreshold
  /\ UNCHANGED store

MetricOps ==
  {"calculateCosineSimilarity", "calculateEuclideanDistance",
   "calculateManhattanDistance", "compareEmbeddings"}

\* the outcome of the method named op, called without an explicit threshold
MethodOutcome(op, embedding1, embedding2) ==
  CASE op = "calculateCosineSimilarity"
         -> MetricOutcome(calculateCosineSimilarity(embedding1, embedding2))
    [] op = "calculateEuclideanDistance"
         -> MetricOutcome(calculateEuclideanDistance(embedding1, embedding2))
    [] op = "calculateManhattanDistance"
         -> MetricOutcome(calculateManhattanDistance(embedding1, embedding2))
    [] OTHER
         -> CompareOutcome(compareEmbeddings(similarityThreshold, embedding1,
                                             embedding2, Null))

\* a metric or compareEmbeddings called on arrays that come from outside
MeasureUntrusted ==
  /\ Idle
  /\ \E op \in MetricOps, embedding1 \in UntrustedArgs, embedding2 \in UntrustedArgs :
       call' = Completed(op, embedding1, embedding2, Null,
                         MethodOutcome(op, embedding1, embedding2))
  /\ UNCHANGED similarityThreshold
  /\ UNCHANGED store

ParseEmbeddingString ==
  /\ Idle
  /\ \E embeddingString \in TextArgs :
       call' = [op |-> "parseEmbeddingString", text |-> embeddingString,
                before |-> similarityThreshold,
                outcome |-> parseEmbeddingString(embeddingString)]
  /\ UNCHANGED similarityThreshold
  /\ UNCHANGED store

Next ==
  \/ CalculateCosineSimilarity
  \/ CalculateEuclideanDistance
  \/ CalculateManhattanDistance
  \/ CompareEmbeddings
  \/ GetSimilarityThreshold
  \/ SetSimilarityThreshold
  \/ Return

Spec == Init /\ [][Next]_vars

\* the calls that take untrusted input: the validator and the parser
NextInputs ==
  \/ ValidateEmbeddings
  \/ MeasureUntrusted
  \/ ParseEmbeddingString
  \/ Return

SpecInputs == Init /\ [][NextInputs]_vars

\* every method of the service
NextService ==
  \/ CalculateCosineSimilarity
  \/ CalculateEuclideanDistance
  \/ CalculateManhattanDistance
  \/ CompareEmbeddings
  \/ GetSimilarityThreshold
  \/ SetSimilarityThreshold
  \/ ValidateEmbeddings
  \/ ParseEmbeddingString
  \/ Return

SpecService == Init /\ [][NextService]_vars

----------------------------------------------------------------------------
(* Views of the completed call *)

Compared == call.op = "compareEmbeddings" /\ call.outcome.status = "returned"
result == call.outcome.result

\* a number of the closed interval [0, 1]
InUnitInterval(x) == x.k = "num" /\ 0 <= x.v /\ x.v <= Scale

\* two numbers that differ by at most one rounding step
WithinRounding(x, y) == x.k = "num" /\ y.k = "num" /\ AbsInt(x.v - y.v) <= 1

----------------------------------------------------------------------------
(* Properties *)

\* C1: in every ComparisonResult, isMatch is true exactly when the result's
\* similarity is greater than or equal to the result's threshold.
C1_IsMatchIffSimilarityGeThreshold ==
  Compared => (result.isMatch <=> Ge(result.similarity, result.threshold))

\* C1 witness: a comparison whose similarity equals its threshold, a match.
C1_Witness ==
  /\ Compared
  /\ result.similarity = result.threshold
  /\ result.similarity.k = "num"
  /\ result.isMatch

\* C2: an explicit threshold t with 0 <= t <= 1 (t = 0 included) is the
\* effective threshold: the result's threshold is t, and isMatch and confidence
\* are computed against t.
C2_ExplicitValidThresholdIsUsed ==
  (Compared /\ InUnitInterval(call.threshold))
    => /\ result.threshold = call.threshold
       /\ result.isMatch = Ge(result.similarity, call.threshold)
       /\ result.confidence = calculateConfidence(result.similarity, call.threshold)

\* C3: an explicit threshold outside [0, 1] is not used: the result's threshold
\* is the process-wide default, and isMatch and confidence are computed against
\* the default.
C3_InvalidExplicitThresholdFallsBack ==
  (Compared /\ call.threshold.k = "num" /\ ~InUnitInterval(call.threshold))
    => /\ result.threshold = call.before
       /\ result.isMatch = Ge(result.similarity, call.before)
       /\ result.confidence = calculateConfidence(result.similarity, call.before)

\* C4: the value returned by the cosine similarity, and the similarity of every
\* ComparisonResult, lies in [0, 1].
C4_CosineInUnitInterval ==
  /\ (call.op = "calculateCosineSimilarity" /\ call.outcome.status = "returned")
       => InUnitInterval(call.outcome.value)
  /\ Compared => InUnitInterval(result.similarity)

\* C5: with an effective threshold in [0, 1] and a similarity in [0, 1], the
\* confidence of a ComparisonResult is a number in [0, 1].
C5_ConfidenceInUnitInterval ==
  (Compared /\ InUnitInterval(result.threshold) /\ InUnitInterval(result.similarity))
    => InUnitInterval(result.confidence)

\* C6: with effective threshold 1 and similarity 1 the confidence is 1.
C6_ConfidenceOneAtThresholdOne ==
  (Compared /\ result.threshold = One /\ result.similarity = One)
    => result.confidence = One

\* C7: for a match with threshold < 1 the confidence is the similarity, capped
\* at 1 (up to the rounding of the arithmetic that computes it).
C7_MatchConfidenceIsSimilarity ==
  (Compared /\ result.isMatch /\ Lt(result.threshold, One))
    => WithinRounding(result.confidence, MathMin(One, result.similarity))

\* C7 witness: a match strictly between a positive threshold and 1.
C7_Witness ==
  /\ Compared
  /\ result.isMatch
  /\ Gt(result.threshold, Zero)
  /\ Gt(result.similarity, result.threshold)
  /\ Lt(result.similarity, One)

\* C8: for a non-match the confidence is similarity / threshold, and the
\* quotient is never evaluated with threshold = 0.
C8_NonMatchQuotientNeverByZero ==
  Compared
    => /\ ~result.isMatch
            => result.confidence = Div(result.similarity, result.threshold)
       /\ ~(/\ ConfidenceBranch(result.similarity, result.threshold) = "nonmatch"
            /\ result.threshold = Zero)

\* C9: confidence is continuous at similarity = threshold: for a threshold t
\* in (0, 1] the limit of the non-match formula as similarity rises to t, which
\* is its value at t, equals the match formula at similarity = t.
C9_ContinuousAtThreshold ==
  (Compared /\ Gt(result.threshold, Zero) /\ Ge(One, result.threshold))
    => NonMatchConfidence(result.threshold, result.threshold)
         = MatchConfidence(result.threshold, result.threshold)

\* C10: setSimilarityThreshold fails with ValidationError for every value that
\* is not a number in [0, 1], and a failing call leaves the default unchanged.
C10_SetterRejectsOutOfRange ==
  call.op = "setSimilarityThreshold"
    => /\ ~InUnitInterval(call.threshold) => call.outcome.status = "ValidationError"
       /\ call.outcome.status = "ValidationError" => similarityThreshold = call.before

\* a call of setSimilarityThreshold that returned has just completed
SetSucceeded == call.op = "setSimilarityThreshold" /\ call.outcome.status = "returned"

\* C11: a successful setSimilarityThreshold(v) makes v the default, the default
\* stays v until the next successful setSimilarityThreshold, and every
\* comparison called without an explicit threshold has the default (v, also
\* when v = 0) as its result's threshold.
C11_DefaultComparisonsUseLastSet ==
  [][/\ SetSucceeded' => similarityThreshold' = call'.threshold
     /\ ~SetSucceeded' => similarityThreshold' = similarityThreshold
     /\ (Compared' /\ call'.threshold = Null)
          => result'.threshold = similarityThreshold]_vars

\* C11 witness: a comparison without explicit threshold made after
\* setSimilarityThreshold(0), whose result carries the threshold 0.
C11_Witness ==
  /\ Compared
  /\ call.threshold = Null
  /\ similarityThreshold = Zero
  /\ result.threshold = Zero

\* C12: the process-wide default threshold is always a number in [0, 1].
C12_DefaultInUnitInterval == InUnitInterval(similarityThreshold)

----------------------------------------------------------------------------
(* compareEmbeddings statement by statement, with setSimilarityThreshold free *)
(* to run between any two statements. The runtime executes each call to    *)
(* completion, so every behaviour of the service is one of these.          *)

\* the pairs of embeddings compared here: similarities 0, about 0.71 and 1
InterleavedArgs ==
  {Arr(<<One, Zero>>), Arr(<<One, One>>), Arr(<<Zero, One>>), NotAnArray}

InFlight ==
  call.op = "compareEmbeddings" /\ call.outcome.status \in {"resolved", "measured", "decided"}

\* line 178: the threshold is resolved once, into the local similarityThreshold
CompareResolve ==
  /\ Idle
  /\ \E embedding1 \in InterleavedArgs, embedding2 \in InterleavedArgs, threshold \in ThresholdArgs :
       call' = Completed("compareEmbeddings", embedding1, embedding2, threshold,
                         [status |-> "resolved", error |-> "", value |-> NaN,
                          result |-> [NoResult EXCEPT !.threshold =
                                        EffectiveThreshold(threshold, similarityThreshold)]])
  /\ UNCHANGED similarityThreshold
  /\ UNCHANGED store

\* lines 181-185: the three metrics, the first that throws ends the call
CompareMeasure ==
  /\ call.op = "compareEmbeddings" /\ call.outcome.status = "resolved"
  /\ LET cosine == calculateCosineSimilarity(call.embedding1, call.embedding2)
         euclidean == calculateEuclideanDistance(call.embedding1, call.embedding2)
         manhattan == calculateManhattanDistance(call.embedding1, call.embedding2)
     IN IF cosine.status # "returned"
        THEN call' = [call EXCEPT !.outcome = MetricOutcome(Thrown(cosine.error))]
        ELSE call' = [call EXCEPT !.outcome.status = "measured",
                                  !.outcome.result.similarity = cosine.value,
                                  !.outcome.result.euclideanDistance = euclidean.value,
                                  !.outcome.result.manhattanDistance = manhattan.value]
  /\ UNCHANGED similarityThreshold
  /\ UNCHANGED store

\* a slip of line 188: the threshold is resolved a second time
DecisionThresholdResolvedAgain(local, again) == again

\* line 188 compares with the local similarityThreshold of line 178
DecisionThreshold(local, again) == local

\* line 188: isMatch
CompareDecide ==
  /\ call.op = "compareEmbeddings" /\ call.outcome.status = "measured"
  /\ call' = [call EXCEPT !.outcome.status = "decided",
                          !.outcome.result.isMatch =
                            IsMatch(call.outcome.result.similarity,
                                    DecisionThreshold(call.outcome.result.threshold,
                                      EffectiveThreshold(call.threshold, similarityThreshold)))]
  /\ UNCHANGED similarityThreshold
  /\ UNCHANGED store

\* lines 190-201: the confidence, and the result is returned
CompareBuild ==
  /\ call.op = "compareEmbeddings" /\ call.outcome.status = "decided"
  /\ call' = [call EXCEPT !.outcome.status = "returned",
                          !.outcome.result.confidence =
                            calculateConfidence(call.outcome.result.similarity,
                                                call.outcome.result.threshold)]
  /\ UNCHANGED similarityThreshold
  /\ UNCHANGED store

\* setSimilarityThreshold accepting a value while a comparison is under way
SetWhileComparing ==
  /\ InFlight
  /\ \E threshold \in SetterArgs :
       /\ ~ThresholdRejected(threshold)
       /\ similarityThreshold' = threshold
  /\ UNCHANGED call
  /\ UNCHANGED store

\* the caller takes the outcome of a call that has ended
TakeOutcome ==
  /\ ~Idle /\ ~InFlight
  /\ call' = NoCall
  /\ UNCHANGED similarityThreshold
  /\ UNCHANGED store

NextInterleaved ==
  \/ CompareResolve
  \/ CompareMeasure
  \/ CompareDecide
  \/ CompareBuild
  \/ SetWhileComparing
  \/ SetSimilarityThreshold
  \/ TakeOutcome

SpecInterleaved == Init /\ [][NextInterleaved]_vars

----------------------------------------------------------------------------
(* Properties, continued *)

\* the methods that only read the service
ReadOnlyOps ==
  {"compareEmbeddings", "calculateCosineSimilarity", "calculateEuclideanDistance",
   "calculateManhattanDistance", "validateEmbeddings", "parseEmbeddingString"}

\* C13: a call of compare, of a metric, of the validator or of the parser,
\* returning or throwing, leaves the process-wide default threshold as it was.
C13_ReadOnlyCallsKeepDefault ==
  [][call'.op \in ReadOnlyOps => similarityThreshold' = similarityThreshold]_vars

\* C13 witness: a comparison with an explicit threshold other than the default
\* has returned, and the default is still the one the call found.
C13_Witness ==
  /\ Compared
  /\ Truthy(call.threshold)
  /\ result.threshold = call.threshold
  /\ call.threshold # call.before
  /\ similarityThreshold = call.before

\* C14: whatever setSimilarityThreshold does while a comparison is under way,
\* the threshold, isMatch and confidence of its result all come from one
\* threshold value: the explicit threshold if it is used, otherwise the default
\* as it was when the comparison read it.
C14_ResultFromOneThreshold ==
  Compared =>
    LET t == EffectiveThreshold(call.threshold, call.before)
    IN /\ result.threshold = t
       /\ result.isMatch = Ge(result.similarity, t)
       /\ result.confidence = calculateConfidence(result.similarity, t)

\* C14 witness: the default was changed while the comparison was under way, and
\* the old and the new default decide the match differently.
C14_Witness ==
  /\ Compared
  /\ call.threshold = Null
  /\ similarityThreshold # call.before
  /\ result.threshold = call.before
  /\ result.isMatch # Ge(result.similarity, similarityThreshold)

\* C15: a metric or compare called on inputs the validator rejects throws the
\* error for invalid embeddings, also when the lengths differ as well; called
\* on inputs the validator accepts whose lengths differ it throws the error for
\* a length mismatch; in both cases nothing is returned.
C15_ValidationBeforeLength ==
  call.op \in MetricOps =>
    /\ ~validateEmbeddings(call.embedding1, call.embedding2)
         => /\ call.outcome.status = "ValidationError"
            /\ call.outcome.error = InvalidVectorsMsg
    /\ (/\ validateEmbeddings(call.embedding1, call.embedding2)
        /\ Len(call.embedding1.items) # Len(call.embedding2.items))
         => /\ call.outcome.status = "ValidationError"
            /\ call.outcome.error = LengthMsg

\* C15 witness: an empty array against a non-empty one is reported as invalid,
\* not as a length mismatch.
C15_Witness ==
  /\ call.op \in MetricOps
  /\ call.embedding1 = Arr(<<>>)
  /\ call.embedding2 = Arr(<<One>>)
  /\ call.outcome.status = "ValidationError"
  /\ call.outcome.error = InvalidVectorsMsg

\* a non-empty array of finite numbers
FiniteVector(e) ==
  e.isArray /\ Len(e.items) > 0 /\ \A i \in 1..Len(e.items) : e.items[i].k = "num"

\* C16: validateEmbeddings returns true exactly when both arguments are
\* non-empty arrays of finite numbers, and false, without throwing, otherwise.
C16_ValidIffFiniteVectors ==
  call.op = "validateEmbeddings" =>
    /\ call.outcome.status = "returned"
    /\ call.outcome.value
         = Bool(FiniteVector(call.embedding1) /\ FiniteVector(call.embedding2))

\* a text that is a JSON array of one or more number literals
NumberArrayText(t) ==
  /\ t.isString
  /\ Len(t.tokens) >= 3
  /\ Len(t.tokens) % 2 = 1
  /\ t.tokens[1] = "["
  /\ t.tokens[Len(t.tokens)] = "]"
  /\ \A i \in 2..(Len(t.tokens) - 1) :
       IF i % 2 = 0 THEN t.tokens[i] \in NumberTokens ELSE t.tokens[i] = ","

Parsed == call.op = "parseEmbeddingString"

\* C17: parseEmbeddingString throws its validation error, and returns no
\* vector, for every input that is not a string, cannot be decoded, does not
\* decode to an array, decodes to an empty array or has an element that is not
\* a number.
C17_ParseRejectsMalformed ==
  (Parsed /\ ~NumberArrayText(call.text))
    => /\ call.outcome.status = "ValidationError"
       /\ call.outcome.embedding = NotAnArray

\* C17 witness: an array holding a string is rejected for its elements.
C17_Witness ==
  /\ Parsed
  /\ call.text = Text(<<"[", "\"a\"", "]">>)
  /\ call.outcome.status = "ValidationError"
  /\ call.outcome.error = NotNumbersMsg

\* C18: every vector parseEmbeddingString returns holds only finite numbers.
C18_ParsedVectorsFinite ==
  (Parsed /\ call.outcome.status = "returned")
    => FiniteVector(call.outcome.embedding)

\* the vectors whose serialization fits a text
RoundTripVectors ==
  UNION {[1..n -> {One, Num(Scale \div 2)}] : n \in 1..MaxLen}

\* C19: parsing the serialization of a non-empty vector of finite numbers
\* returns that vector: same length, same elements, same order.
C19_ParseOfSerializeIsIdentity ==
  \A v \in RoundTripVectors :
    (Parsed /\ call.text = Serialize(v))
      => /\ call.outcome.status = "returned"
         /\ call.outcome.embedding = Arr(v)

\* C19 witness: the serialization of [0.5, 1] has been parsed back to [0.5, 1].
C19_Witness ==
  /\ Parsed
  /\ call.text = Serialize(<<Num(Scale \div 2), One>>)
  /\ call.outcome.embedding = Arr(<<Num(Scale \div 2), One>>)

\* every element is 0
ZeroVector(e) == \A i \in 1..Len(e.items) : e.items[i] = Zero

\* C20: the cosine similarity of two valid embeddings of equal length, one of
\* which is a zero vector, is exactly 0, and nothing is thrown; so is the
\* similarity of their comparison.
C20_ZeroVectorSimilarityZero ==
  (/\ call.op \in {"calculateCosineSimilarity", "compareEmbeddings"}
   /\ validateEmbeddings(call.embedding1, call.embedding2)
   /\ Len(call.embedding1.items) = Len(call.embedding2.items)
   /\ ZeroVector(call.embedding1) \/ ZeroVector(call.embedding2))
    => /\ call.outcome.status = "returned"
       /\ call.op = "calculateCosineSimilarity" => call.outcome.value = Zero
       /\ call.op = "compareEmbeddings" => result.similarity = Zero

\* C20 witness: the zero vector compared with itself.
C20_Witness ==
  /\ call.op = "calculateCosineSimilarity"
  /\ call.embedding1 = Arr(<<Zero>>)
  /\ call.embedding2 = Arr(<<Zero>>)
  /\ call.outcome.value = Zero

----------------------------------------------------------------------------
(* The metrics on the vectors of the unit tests (three elements), together  *)
(* with vectors of very small and very large elements                       *)

\* the smallest positive number of the number model: its square rounds to 0
Tiny == Num(1)

ExampleVectors ==
  {<<One, Zero, Zero>>, <<Zero, One, Zero>>, <<Num(Scale \div 2), Zero, Zero>>,
   <<Num(2 * Scale), Zero, Zero>>, <<Neg(One), Zero, Zero>>, <<Zero, Zero, Zero>>,
   <<Tiny, Zero, Zero>>, <<Huge, Zero, Zero>>, <<Neg(Huge), Zero, Zero>>}

ExampleArgs == {Arr(v) : v \in ExampleVectors} \cup {NotAnArray}

\* the thresholds of the unit tests: omitted, and 0.8
ExampleThresholds == {Null, Tenths(8)}

MeasureExamples ==
  /\ Idle
  /\ \E op \in MetricOps \ {"compareEmbeddings"}, embedding1 \in ExampleArgs, embedding2 \in ExampleArgs :
       call' = Completed(op, embedding1, embedding2, Null,
                         MethodOutcome(op, embedding1, embedding2))
  /\ UNCHANGED similarityThreshold
  /\ UNCHANGED store

CompareExamples ==
  /\ Idle
  /\ \E embedding1 \in ExampleArgs, embedding2 \in ExampleArgs, threshold \in ExampleThresholds :
       call' = Completed("compareEmbeddings", embedding1, embedding2, threshold,
                         CompareOutcome(compareEmbeddings(similarityThreshold,
                                                          embedding1, embedding2, threshold)))
  /\ UNCHANGED similarityThreshold
  /\ UNCHANGED store

NextExamples ==
  \/ MeasureExamples
  \/ CompareExamples
  \/ Return

SpecExamples == Init /\ [][NextExamples]_vars

----------------------------------------------------------------------------
(* Properties of the metrics *)

\* y is x multiplied by a positive factor, and x is not the zero vector
PositiveMultiple(x, y) ==
  /\ Len(x) = Len(y)
  /\ \E i \in 1..Len(x) : x[i].v # 0
  /\ \A i \in 1..Len(x) :
       \/ x[i].v * y[i].v > 0
       \/ x[i].v = 0 /\ y[i].v = 0
  /\ \A i, j \in 1..Len(x) : x[i].v * y[j].v = x[j].v * y[i].v

\* C21: for a non-zero embedding v and a positive factor k the cosine
\* similarity of v and k*v is 1, and a comparison of v and k*v with an explicit
\* threshold t in (0, 1] is a match whose threshold field is t.
C21_CosineIgnoresMagnitude ==
  (/\ call.op \in {"calculateCosineSimilarity", "compareEmbeddings"}
   /\ FiniteVector(call.embedding1)
   /\ FiniteVector(call.embedding2)
   /\ PositiveMultiple(call.embedding1.items, call.embedding2.items))
    => /\ call.outcome.status = "returned"
       /\ call.op = "calculateCosineSimilarity" => call.outcome.value = One
       /\ (/\ call.op = "compareEmbeddings"
           /\ call.threshold.k = "num"
           /\ Gt(call.threshold, Zero)
           /\ Ge(One, call.threshold))
            => /\ result.isMatch
               /\ result.threshold = call.threshold

\* the comparison of the unit test: [1, 0, 0] with [0.5, 0, 0] at threshold 0.8
HalvedVectorCompared ==
  /\ Compared
  /\ call.embedding1 = Arr(<<One, Zero, Zero>>)
  /\ call.embedding2 = Arr(<<Num(Scale \div 2), Zero, Zero>>)
  /\ call.threshold = Tenths(8)

RECURSIVE ExactDot(_, _, _)
\* the dot product of the first n places, without rounding or overflow
ExactDot(x, y, n) ==
  IF n = 0 THEN 0 ELSE ExactDot(x, y, n - 1) + x[n].v * y[n].v

\* C23: the cosine similarity of two valid non-zero embeddings of equal length
\* whose dot product is negative is exactly 0.
C23_NegativeDotGivesZero ==
  (/\ call.op = "calculateCosineSimilarity"
   /\ FiniteVector(call.embedding1)
   /\ FiniteVector(call.embedding2)
   /\ Len(call.embedding1.items) = Len(call.embedding2.items)
   /\ ExactDot(call.embedding1.items, call.embedding2.items,
               Len(call.embedding1.items)) < 0)
    => /\ call.outcome.status = "returned"
       /\ call.outcome.value = Zero

\* the three metrics
DistanceOps == MetricOps \ {"compareEmbeddings"}

\* C24: each metric gives the same outcome for (a, b) and for (b, a): the same
\* value when it returns, the same error when it throws.
C24_MetricsSymmetric ==
  call.op \in DistanceOps
    => call.outcome = MethodOutcome(call.op, call.embedding2, call.embedding1)

\* C24 witness: the cosine similarity of two embeddings of different
\* magnitudes, strictly between 0 and 1.
C24_Witness ==
  /\ call.op = "calculateCosineSimilarity"
  /\ call.outcome.status = "returned"
  /\ Magnitude(call.embedding1.items) # Magnitude(call.embedding2.items)
  /\ Gt(call.outcome.value, Zero)
  /\ Lt(call.outcome.value, One)

\* C25: the Euclidean distance of two valid embeddings of equal length is 0
\* exactly when they are equal element by element, and strictly positive
\* otherwise.
C25_EuclideanZeroIffEqual ==
  (/\ call.op = "calculateEuclideanDistance"
   /\ FiniteVector(call.embedding1)
   /\ FiniteVector(call.embedding2)
   /\ Len(call.embedding1.items) = Len(call.embedding2.items))
    => /\ call.outcome.status = "returned"
       /\ call.outcome.value = Zero <=> call.embedding1 = call.embedding2
       /\ call.embedding1 # call.embedding2 => Gt(call.outcome.value, Zero)

\* the comparisons a returned comparison is set against
ReferenceArgs == InterleavedArgs \ {NotAnArray}

\* C26: at one effective threshold t in (0, 1) the confidence of a match is
\* greater than or equal to the confidence of every non-match (stated for
\* similarities in [0, 1]).
C26_MatchConfidenceAboveNonMatch ==
  (/\ Compared
   /\ InUnitInterval(result.similarity)
   /\ Gt(result.threshold, Zero)
   /\ Lt(result.threshold, One))
    => \A a \in ReferenceArgs, b \in ReferenceArgs :
         LET other == compareEmbeddings(call.before, a, b, call.threshold).result
         IN /\ (result.isMatch /\ ~other.isMatch)
                 => Ge(result.confidence, other.confidence)
            /\ (other.isMatch /\ ~result.isMatch)
                 => Ge(other.confidence, result.confidence)

----------------------------------------------------------------------------
(* The encode controller (controllers/encode.controller.js). A request is   *)
(* suspended at each await, where the other requests may run.               *)

FreeSlot(r) == requests[r].op = "none"

\* no request is under way
Quiet == \A r \in RequestSlots : FreeSlot(r)

\* POST /encode arrives: the model and the file are checked
ReceiveEncode ==
  /\ \E r \in RequestSlots :
       /\ FreeSlot(r)
       /\ \E userId \in UserIds, precheck \in Prechecks :
            requests' = [requests EXCEPT ![r] =
              IF precheck = "ok"
              THEN [NoRequest EXCEPT !.op = "encodeFace", !.userId = userId,
                                     !.pc = "process"]
              ELSE [NoRequest EXCEPT !.op = "encodeFace", !.userId = userId,
                                     !.pc = "done", !.response = precheck]]
  /\ UNCHANGED <<userEmbeddings, service>>

\* await processImageAndGenerateEmbedding, generateImageHash
ProcessImage ==
  /\ \E r \in RequestSlots :
       /\ requests[r].op = "encodeFace" /\ requests[r].pc = "process"
       /\ \/ \E embedding \in GeneratedEmbeddings :
               requests' = [requests EXCEPT ![r].embedding = embedding, ![r].pc = "find"]
          \/ requests' = [requests EXCEPT ![r].pc = "done",
                                          ![r].response = "imageProcessingFailed"]
  /\ UNCHANGED <<userEmbeddings, service>>

\* const existingUser = await UserEmbedding.findByUserId(userId)
FindExistingUser ==
  /\ \E r \in RequestSlots :
       /\ requests[r].op = "encodeFace" /\ requests[r].pc = "find"
       /\ requests' = [requests EXCEPT
            ![r].existingUser = findByUserId(userEmbeddings, requests[r].userId).exists,
            ![r].pc = "write"]
  /\ UNCHANGED <<userEmbeddings, service>>

\* await updateEmbedding or await createEmbedding, then the response
WriteEmbedding ==
  /\ \E r \in RequestSlots :
       /\ requests[r].op = "encodeFace" /\ requests[r].pc = "write"
       /\ LET written ==
                IF requests[r].existingUser
                THEN updateEmbedding(userEmbeddings, requests[r].userId, requests[r].embedding)
                ELSE createEmbedding(userEmbeddings, requests[r].userId, requests[r].embedding)
          IN /\ userEmbeddings' = written.table
             /\ requests' = [requests EXCEPT
                  ![r].pc = "done",
                  ![r].response = IF written.ok THEN "encodeSuccess"
                                  ELSE "internalServerError"]
  /\ UNCHANGED service

\* DELETE /encode/:userId arrives
ReceiveDelete ==
  /\ \E r \in RequestSlots :
       /\ FreeSlot(r)
       /\ \E userId \in UserIds :
            requests' = [requests EXCEPT ![r] =
              [NoRequest EXCEPT !.op = "deleteUserEmbedding", !.userId = userId,
                                !.pc = "deactivate"]]
  /\ UNCHANGED <<userEmbeddings, service>>

\* const deleted = await UserEmbedding.deactivateEmbedding(userId), then the response
DeactivateEmbedding ==
  /\ \E r \in RequestSlots :
       /\ requests[r].op = "deleteUserEmbedding" /\ requests[r].pc = "deactivate"
       /\ LET done == deactivateEmbedding(userEmbeddings, requests[r].userId)
          IN /\ userEmbeddings' = done.table
             /\ requests' = [requests EXCEPT
                  ![r].pc = "done",
                  ![r].response = IF done.deleted THEN "success" ELSE "embeddingNotFound"]
  /\ UNCHANGED service

\* GET /encode/:userId arrives
ReceiveGet ==
  /\ \E r \in RequestSlots :
       /\ FreeSlot(r)
       /\ \E userId \in UserIds :
            requests' = [requests EXCEPT ![r] =
              [NoRequest EXCEPT !.op = "getUserEmbedding", !.userId = userId,
                                !.pc = "find"]]
  /\ UNCHANGED <<userEmbeddings, service>>

\* const userEmbedding = await UserEmbedding.findByUserId(userId), then the response
LookupEmbedding ==
  /\ \E r \in RequestSlots :
       /\ requests[r].op = "getUserEmbedding" /\ requests[r].pc = "find"
       /\ LET userEmbedding == findByUserId(userEmbeddings, requests[r].userId)
          IN requests' = [requests EXCEPT
               ![r].pc = "done",
               ![r].embedding = userEmbedding.embedding,
               ![r].response = IF userEmbedding.exists THEN "success"
                               ELSE "embeddingNotFound"]
  /\ UNCHANGED <<userEmbeddings, service>>

\* the response has been sent
Respond ==
  /\ \E r \in RequestSlots :
       /\ requests[r].pc = "done"
       /\ requests' = [requests EXCEPT ![r] = NoRequest]
  /\ UNCHANGED <<userEmbeddings, service>>

\* requests handled while others are suspended
NextStore ==
  \/ ReceiveEncode
  \/ ProcessImage
  \/ FindExistingUser
  \/ WriteEmbedding
  \/ ReceiveDelete
  \/ DeactivateEmbedding
  \/ ReceiveGet
  \/ LookupEmbedding
  \/ Respond

SpecStore == Init /\ [][NextStore]_vars

\* a client that sends each request after the response to the one before
ReceiveEncodeWhenQuiet == Quiet /\ ReceiveEncode
ReceiveDeleteWhenQuiet == Quiet /\ ReceiveDelete
ReceiveGetWhenQuiet == Quiet /\ ReceiveGet

NextSequential ==
  \/ ReceiveEncodeWhenQuiet
  \/ ProcessImage
  \/ FindExistingUser
  \/ WriteEmbedding
  \/ ReceiveDeleteWhenQuiet
  \/ DeactivateEmbedding
  \/ ReceiveGetWhenQuiet
  \/ LookupEmbedding
  \/ Respond

SpecSequential == Init /\ [][NextSequential]_vars

----------------------------------------------------------------------------
(* Properties of the encode controller *)

\* an encode request whose image was processed has been answered
EncodeAnswered(r) ==
  /\ requests[r].op = "encodeFace"
  /\ requests[r].pc = "done"
  /\ requests[r].embedding # "none"

\* C27: with requests sent one after the other, every encode request whose
\* image processing succeeds is answered with success, whatever encodes and
\* deletes came before, and leaves the userId's one row active and holding the
\* new embedding.
C27_EncodeIsUpsert ==
  \A r \in RequestSlots :
    EncodeAnswered(r)
      => /\ requests[r].response = "encodeSuccess"
         /\ userEmbeddings[requests[r].userId] = Row(TRUE, requests[r].embedding)

\* C28: two concurrent encode requests for one userId that both found no
\* existing user both complete with success, and the userId's row is active.
C28_ConcurrentEncodesBothSucceed ==
  \A r1, r2 \in RequestSlots :
    (/\ r1 # r2
     /\ EncodeAnswered(r1)
     /\ EncodeAnswered(r2)
     /\ requests[r1].userId = requests[r2].userId
     /\ ~requests[r1].existingUser
     /\ ~requests[r2].existingUser
     /\ userEmbeddings[requests[r1].userId].isActive)
      => /\ requests[r1].response = "encodeSuccess"
         /\ requests[r2].response = "encodeSuccess"

\* C29: a delete request is answered not-found exactly when the userId has no
\* active embedding at that time, that is, when findByUserId returns nothing.
C29_DeleteNotFoundIffNoActive ==
  [][\A r \in RequestSlots :
       (requests[r].pc = "deactivate" /\ requests'[r].pc = "done")
         => (requests'[r].response = "embeddingNotFound"
               <=> ~findByUserId(userEmbeddings, requests[r].userId).exists)]_vars

----------------------------------------------------------------------------
(* batchCompareFaces (controllers/compare.controller.js)                    *)

\* an element of the decoded storedEmbeddings: a string, or an array of numbers
StoredString(tokens) == [isString |-> TRUE, tokens |-> tokens, items |-> <<>>]
StoredArray(items) == [isString |-> FALSE, tokens |-> <<>>, items |-> items]

\* typeof storedEmbedding === 'string' ? storedEmbedding : JSON.stringify(storedEmbedding)
StoredText(storedEmbedding) ==
  IF storedEmbedding.isString THEN Text(storedEmbedding.tokens)
  ELSE Serialize(storedEmbedding.items)

\* the entry of a stored embedding that failed to parse or to compare
ErrorComparison(index) ==
  [embeddingIndex |-> index, isMatch |-> FALSE, similarity |-> Zero,
   confidence |-> Zero, error |-> "Invalid embedding format"]

\* the callback of storedEmbeddings.map
Comparison(default, newEmbedding, storedEmbedding, index, threshold) ==
  LET parsedEmbedding == parseEmbeddingString(StoredText(storedEmbedding))
      comparisonResult == compareEmbeddings(default, newEmbedding,
                                            parsedEmbedding.embedding, threshold)
  IN IF parsedEmbedding.status # "returned" THEN ErrorComparison(index)
     ELSE IF comparisonResult.status # "returned" THEN ErrorComparison(index)
     ELSE [embeddingIndex |-> index,
           isMatch |-> comparisonResult.result.isMatch,
           similarity |-> comparisonResult.result.similarity,
           confidence |-> comparisonResult.result.confidence,
           error |-> ""]

RECURSIVE ComparisonsUntilFailure(_, _, _, _, _)
\* a slip of the loop: the first stored embedding that fails ends the comparisons
ComparisonsUntilFailure(default, newEmbedding, storedEmbeddings, n, threshold) ==
  IF n = 0 THEN <<>>
  ELSE LET earlier == ComparisonsUntilFailure(default, newEmbedding, storedEmbeddings,
                                              n - 1, threshold)
       IN IF Len(earlier) < n - 1 THEN earlier
          ELSE IF n > 1 /\ earlier[n - 1].error # "" THEN earlier
          ELSE Append(earlier, Comparison(default, newEmbedding, storedEmbeddings[n],
                                          n - 1, threshold))

RECURSIVE Comparisons(_, _, _, _, _)
\* storedEmbeddings.map(...) over the first n stored embeddings
Comparisons(default, newEmbedding, storedEmbeddings, n, threshold) ==
  IF n = 0 THEN <<>>
  ELSE Append(Comparisons(default, newEmbedding, storedEmbeddings, n - 1, threshold),
              Comparison(default, newEmbedding, storedEmbeddings[n], n - 1, threshold))

RECURSIVE BestMatch(_, _)
\* comparisons.reduce((best, current) => current.similarity > best.similarity ? current : best)
BestMatch(comparisons, n) ==
  IF n = 1 THEN comparisons[1]
  ELSE LET best == BestMatch(comparisons, n - 1)
       IN IF Gt(comparisons[n].similarity, best.similarity) THEN comparisons[n] ELSE best

\* an image whose processing failed, or the embedding generated from it
FailedImage == [ok |-> FALSE, embedding |-> NotAnArray]
ProcessedImage(v) == [ok |-> TRUE, embedding |-> Arr(v)]

\* the entry of results for the image of index i: reduce throws on no comparisons
ImageResult(default, file, i, storedEmbeddings, threshold) ==
  LET comparisons == Comparisons(default, file.embedding, storedEmbeddings,
                                 Len(storedEmbeddings), threshold)
  IN IF ~file.ok
       THEN [imageIndex |-> i, error |-> "ImageProcessingError", comparisons |-> <<>>,
             bestMatch |-> ErrorComparison(-1)]
     ELSE IF Len(comparisons) = 0
       THEN [imageIndex |-> i, error |-> "TypeError", comparisons |-> <<>>,
             bestMatch |-> ErrorComparison(-1)]
     ELSE [imageIndex |-> i, error |-> "", comparisons |-> comparisons,
           bestMatch |-> BestMatch(comparisons, Len(comparisons))]

RECURSIVE Results(_, _, _, _, _)
\* the loop over req.files, for the first n files
Results(default, files, n, storedEmbeddings, threshold) ==
  IF n = 0 THEN <<>>
  ELSE Append(Results(default, files, n - 1, storedEmbeddings, threshold),
              ImageResult(default, files[n], n - 1, storedEmbeddings, threshold))

\* req.body.storedEmbeddings: absent, not JSON, JSON but no array, or an array
StoredBody(kind, items) == [kind |-> kind, items |-> items]

batchCompareFaces(default, modelLoaded, files, body, threshold) ==
  IF ~modelLoaded THEN [status |-> "modelNotLoaded", results |-> <<>>]
  ELSE IF Len(files) = 0 THEN [status |-> "badRequest", results |-> <<>>]
  ELSE IF body.kind # "array" THEN [status |-> "badRequest", results |-> <<>>]
  ELSE [status |-> "success",
        results |-> Results(default, files, Len(files), body.items, threshold)]

\* the files of a request
BatchFiles ==
  UNION {[1..n -> {FailedImage, ProcessedImage(<<One, Zero>>),
                   ProcessedImage(<<Num(Scale \div 2), One>>)}] : n \in 0..MaxBatch}

\* stored embeddings: two that compare, one of another length, one with an
\* element that is no number, one that is no JSON
StoredItems ==
  {StoredString(<<"[", "1", ",", "0.5", "]">>), StoredArray(<<Num(Scale \div 2), One>>),
   StoredString(<<"[", "1", "]">>), StoredString(<<"[", "\"a\"", "]">>),
   StoredString(<<"1", "]">>)}

StoredBodies ==
  {StoredBody("array", items) : items \in UNION {[1..n -> StoredItems] : n \in 0..MaxBatch}}
    \cup {StoredBody("absent", <<>>), StoredBody("malformed", <<>>),
          StoredBody("notArray", <<>>)}

\* req.body.threshold ? parseFloat(req.body.threshold) : null
BodyThresholds == {Null, Tenths(8), NaN}

BatchCompareFaces ==
  /\ Idle
  /\ \E modelLoaded \in BOOLEAN, files \in BatchFiles, body \in StoredBodies, threshold \in BodyThresholds :
       call' = [op |-> "batchCompareFaces", files |-> files, body |-> body,
                threshold |-> threshold, before |-> similarityThreshold,
                outcome |-> batchCompareFaces(similarityThreshold, modelLoaded, files,
                                              body, threshold)]
  /\ UNCHANGED similarityThreshold
  /\ UNCHANGED store

NextBatch ==
  \/ BatchCompareFaces
  \/ Return

SpecBatch == Init /\ [][NextBatch]_vars

----------------------------------------------------------------------------
(* Properties of batchCompareFaces *)

BatchCompared == call.op = "batchCompareFaces" /\ call.outcome.status = "success"

\* the entry the stored embedding of place j must have for the embedding e
ExpectedEntry(e, j) ==
  LET parsed == parseEmbeddingString(StoredText(call.body.items[j]))
      compared == compareEmbeddings(call.before, e, parsed.embedding, call.threshold)
  IN IF parsed.status = "returned" /\ compared.status = "returned"
     THEN [embeddingIndex |-> j - 1, isMatch |-> compared.result.isMatch,
           similarity |-> compared.result.similarity,
           confidence |-> compared.result.confidence, error |-> ""]
     ELSE [embeddingIndex |-> j - 1, isMatch |-> FALSE, similarity |-> Zero,
           confidence |-> Zero, error |-> "Invalid embedding format"]

\* C30: a batch comparison has one result per image, in order; for each image
\* that was processed the comparisons hold one entry per stored embedding, in
\* order, with embeddingIndex its position; a stored embedding that fails to
\* parse or to compare has the entry {isMatch: false, similarity: 0,
\* confidence: 0, error} and the stored embeddings and images after it are
\* compared all the same.
C30_BatchOneEntryPerStoredEmbedding ==
  BatchCompared =>
    /\ Len(call.outcome.results) = Len(call.files)
    /\ \A i \in 1..Len(call.files) :
         /\ call.outcome.results[i].imageIndex = i - 1
         /\ call.files[i].ok =>
              /\ Len(call.outcome.results[i].comparisons) = Len(call.body.items)
              /\ \A j \in 1..Len(call.body.items) :
                   call.outcome.results[i].comparisons[j]
                     = ExpectedEntry(call.files[i].embedding, j)

\* C30 witness: the first image failed, the second was processed; its first
\* stored embedding failed and its second was compared.
C30_Witness ==
  /\ BatchCompared
  /\ Len(call.files) = 2
  /\ ~call.files[1].ok
  /\ call.files[2].ok
  /\ Len(call.outcome.results[2].comparisons) = 2
  /\ call.outcome.results[2].comparisons[1].error # ""
  /\ call.outcome.results[2].comparisons[2].error = ""
  /\ call.outcome.results[2].comparisons[2].embeddingIndex = 1

====
